---- MODULE Spec2Model ----
(***************************************************************************)
(* Model of the Google Cloud Storage blueprints: the four commands         *)
(* download_file.py, upload_file.py, move_file.py and remove_file.py.      *)
(*                                                                         *)
(* Strings are sequences of one-character strings, so that the path and    *)
(* name functions are computed character by character as the code does.    *)
(***************************************************************************)
EXTENDS Integers, Sequences, FiniteSets, TLC

(***************************************************************************)
(* Bounds of the model.                                                    *)
(***************************************************************************)
\* longest folder / file name drawn for the path functions
MaxLen == 4
\* largest file number drawn for the path functions
MaxFileNumber == 11
\* number of objects d/<letter>.c the source bucket (and the local tree) holds
NumObjects == 3
\* longest candidate list drawn for the matching functions
MaxCandidates == 3

\* longest destination file name drawn for the destination resolver
MaxNameLen == 3
\* longest folder and source path drawn for the destination resolver
MaxShortLen == 2
\* largest match index drawn for the destination resolver
MaxMatchIndex == 2
\* longest candidate name drawn for the matching functions
MaxCandLen == 2

\* Python's None, for an optional string and for an optional number
NoneStr == <<"None">>
NoNumber == -1

(***************************************************************************)
(* String helpers (Python str methods used by the code).                   *)
(***************************************************************************)
RECURSIVE LStrip(_)
\* str.lstrip('/')
LStrip(s) ==
    IF s # <<>> /\ Head(s) = "/" THEN LStrip(Tail(s)) ELSE s

RECURSIVE RStrip(_)
\* str.rstrip('/')
RStrip(s) ==
    IF s # <<>> /\ s[Len(s)] = "/" THEN RStrip(SubSeq(s, 1, Len(s) - 1)) ELSE s

\* str.strip('/')
Strip(s) == RStrip(LStrip(s))

\* str.startswith(prefix)
StartsWith(s, prefix) ==
    /\ Len(prefix) <= Len(s)
    /\ SubSeq(s, 1, Len(prefix)) = prefix

RECURSIVE Split(_, _)
\* str.split('/'): cur is the component being read
Split(s, cur) ==
    IF s = <<>> THEN <<cur>>
    ELSE IF Head(s) = "/" THEN <<cur>> \o Split(Tail(s), <<>>)
    ELSE Split(Tail(s), Append(cur, Head(s)))

RECURSIVE Join(_)
\* '/'.join(comps)
Join(comps) ==
    IF comps = <<>> THEN <<>>
    ELSE IF Len(comps) = 1 THEN comps[1]
    ELSE comps[1] \o <<"/">> \o Join(Tail(comps))

\* position of the first sep in s, 0 when there is none
RECURSIVE FindFirst(_, _, _)
FindFirst(s, sep, i) ==
    IF i > Len(s) THEN 0
    ELSE IF s[i] = sep THEN i
    ELSE FindFirst(s, sep, i + 1)

\* str.rfind(sep) + 1: position of the last sep in s, 0 when there is none
RECURSIVE FindLast(_, _, _)
FindLast(s, sep, i) ==
    IF i = 0 THEN 0
    ELSE IF s[i] = sep THEN i
    ELSE FindLast(s, sep, i - 1)

Digit(d) == <<"0", "1", "2", "3", "4", "5", "6", "7", "8", "9">>[d + 1]

RECURSIVE IntToStr(_)
\* f'{file_number}' for a non-negative integer
IntToStr(n) ==
    IF n < 10 THEN <<Digit(n)>>
    ELSE Append(IntToStr(n \div 10), Digit(n % 10))

(***************************************************************************)
(* os.path.normpath and os.path.basename (posixpath).                      *)
(***************************************************************************)
\* number of leading slashes normpath keeps: 0, 1, or 2 for exactly two
InitialSlashes(path) ==
    IF ~StartsWith(path, <<"/">>) THEN 0
    ELSE IF StartsWith(path, <<"/", "/">>) /\ ~StartsWith(path, <<"/", "/", "/">>) THEN 2
    ELSE 1

RECURSIVE NormComps(_, _, _)
\* the loop of normpath over the components: new is new_comps so far
NormComps(comps, new, initial) ==
    IF comps = <<>> THEN new
    ELSE LET comp == Head(comps)
             rest == Tail(comps)
         IN  IF comp = <<>> \/ comp = <<".">> THEN NormComps(rest, new, initial)
             ELSE IF \/ comp # <<".", ".">>
                     \/ (initial = 0 /\ new = <<>>)
                     \/ (new # <<>> /\ new[Len(new)] = <<".", ".">>)
                  THEN NormComps(rest, Append(new, comp), initial)
             ELSE IF new # <<>>
                  THEN NormComps(rest, SubSeq(new, 1, Len(new) - 1), initial)
             ELSE NormComps(rest, new, initial)

normpath(path) ==
    IF path = <<>> THEN <<".">>
    ELSE LET initial == InitialSlashes(path)
             joined  == Join(NormComps(Split(path, <<>>), <<>>, initial))
             result  == [i \in 1..initial |-> "/"] \o joined
         IN  IF result = <<>> THEN <<".">> ELSE result

basename(path) ==
    SubSeq(path, FindLast(path, "/", Len(path)) + 1, Len(path))

(***************************************************************************)
(* re.compile / re.search for the patterns the model draws: literals, '.', *)
(* a postfix '*', a leading '^' and a trailing '$'.                        *)
(***************************************************************************)
\* re.compile raises "nothing to repeat" / "multiple repeat"
PatternCompiles(p) ==
    LET body == IF p # <<>> /\ Head(p) = "^" THEN Tail(p) ELSE p
    IN  /\ ~(body # <<>> /\ Head(body) = "*")
        /\ \A i \in 1..(Len(body) - 1) : ~(body[i] = "*" /\ body[i + 1] = "*")

RECURSIVE MatchHere(_, _)
RECURSIVE MatchStar(_, _, _)
\* does pattern p match at the beginning of s
MatchHere(p, s) ==
    IF p = <<>> THEN TRUE
    ELSE IF Len(p) >= 2 /\ p[2] = "*" THEN MatchStar(p[1], Tail(Tail(p)), s)
    ELSE IF p = <<"$">> THEN s = <<>>
    ELSE IF s # <<>> /\ (p[1] = "." \/ p[1] = s[1]) THEN MatchHere(Tail(p), Tail(s))
    ELSE FALSE

\* c* followed by p, at the beginning of s
MatchStar(c, p, s) ==
    \/ MatchHere(p, s)
    \/ /\ s # <<>>
       /\ (c = "." \/ c = s[1])
       /\ MatchStar(c, p, Tail(s))

\* re.search(p, s) is not None: unanchored, the match may start anywhere
re_search(p, s) ==
    IF p # <<>> /\ Head(p) = "^" THEN MatchHere(Tail(p), s)
    ELSE \E i \in 0..Len(s) : MatchHere(p, SubSeq(s, i + 1, Len(s)))

(***************************************************************************)
(* Path resolver: download_file.py and upload_file.py hold the same        *)
(* functions; move_file.py and remove_file.py call them as                 *)
(* shipyard.files.*.                                                       *)
(***************************************************************************)
\* Python truthiness of an optional string (None and '' are false)
TruthyStr(x) == x # NoneStr /\ x # <<>>

\* Python truthiness of an optional number (None and 0 are false)
TruthyNum(n) == n # NoNumber /\ n # 0

extract_file_name_from_source_full_path(source_full_path) ==
    basename(source_full_path)

\* variant: the number goes before the last '.' instead of the first
enumerate_before_last_dot(destination_file_name, file_number) ==
    LET dot == FindLast(destination_file_name, ".", Len(destination_file_name))
        num == <<"_">> \o IntToStr(file_number)
    IN  IF dot > 0
        THEN SubSeq(destination_file_name, 1, dot - 1) \o num \o <<".">>
                 \o SubSeq(destination_file_name, dot + 1, Len(destination_file_name))
        ELSE destination_file_name \o num

enumerate_destination_file_name(destination_file_name, file_number) ==
    LET dot == FindFirst(destination_file_name, ".", 1)
        num == <<"_">> \o IntToStr(file_number)
    IN  IF dot > 0
        THEN SubSeq(destination_file_name, 1, dot - 1) \o num \o <<".">>
                 \o SubSeq(destination_file_name, dot + 1, Len(destination_file_name))
        ELSE destination_file_name \o num

\* variant: a derived name is enumerated too
determine_destination_file_name_always_numbered(source_full_path, destination_file_name, file_number) ==
    LET name == IF TruthyStr(destination_file_name) THEN destination_file_name
                ELSE extract_file_name_from_source_full_path(source_full_path)
    IN  IF TruthyNum(file_number)
        THEN enumerate_destination_file_name(name, file_number)
        ELSE name

determine_destination_file_name(source_full_path, destination_file_name, file_number) ==
    IF TruthyStr(destination_file_name)
    THEN IF TruthyNum(file_number)
         THEN enumerate_destination_file_name(destination_file_name, file_number)
         ELSE destination_file_name
    ELSE extract_file_name_from_source_full_path(source_full_path)

\* variant: only the trailing separators are stripped
clean_folder_name_rstrip_only(folder_name) ==
    LET stripped == RStrip(folder_name)
    IN  IF stripped # <<>> THEN normpath(stripped) ELSE stripped

clean_folder_name(folder_name) ==
    LET stripped == Strip(folder_name)
    IN  IF stripped # <<>> THEN normpath(stripped) ELSE stripped

combine_folder_and_file_name(folder_name, file_name) ==
    normpath(normpath(folder_name
                      \o (IF folder_name # <<>> THEN <<"/">> ELSE <<>>)
                      \o file_name))

determine_destination_name(destination_folder_name, destination_file_name, source_full_path, file_number) ==
    combine_folder_and_file_name(
        destination_folder_name,
        determine_destination_file_name(source_full_path, destination_file_name,
                                        file_number))

RECURSIVE find_matching_files_at_start(_, _)
\* variant: re.match instead of re.search, the match must start the name
find_matching_files_at_start(file_blobs, file_name_re) ==
    IF file_blobs = <<>> THEN <<>>
    ELSE LET blob == Head(file_blobs)
             rest == find_matching_files_at_start(Tail(file_blobs), file_name_re)
             anchored == IF file_name_re # <<>> /\ Head(file_name_re) = "^"
                         THEN Tail(file_name_re) ELSE file_name_re
         IN  IF MatchHere(anchored, blob) THEN <<blob>> \o rest ELSE rest

RECURSIVE find_matching_files(_, _)
\* the loop over the candidates, appending every name the pattern is found in
find_matching_files(file_blobs, file_name_re) ==
    IF file_blobs = <<>> THEN <<>>
    ELSE LET blob == Head(file_blobs)
             rest == find_matching_files(Tail(file_blobs), file_name_re)
         IN  IF re_search(file_name_re, blob) THEN <<blob>> \o rest ELSE rest

(***************************************************************************)
(* State.                                                                  *)
(***************************************************************************)
VARIABLES
    args,                   \* the parsed command line (get_args)
    pc,                     \* position of main()
    tmp_file,               \* main's tmp_file: the temporary file's path or NoPath
    environ,                \* os.environ['GOOGLE_APPLICATION_CREDENTIALS']
    files,                  \* credential files that exist on the file system
    objects,                \* the buckets: <<bucket, object name>> -> content
    local,                  \* the local files: absolute path -> content
    matching_file_names,    \* main's matching_file_names (the one blob in exact mode)
    index,                  \* number of matches the loop has finished
    oplog,                  \* the calls made to the storage backend, in order
    output,                 \* the confirmation lines printed, in order
    exit_status,            \* the exit status of the process, NoNumber while it runs
    call                    \* a direct call of one path / matching function

vars == <<args, pc, tmp_file, environ, files, objects, local,
          matching_file_names, index, oplog, output, exit_status, call>>

mainVars == <<args, pc, tmp_file, environ, files, objects, local,
              matching_file_names, index, oplog, output, exit_status>>

NoPath == "NoPath"

(***************************************************************************)
(* Direct calls of the path and matching functions, inputs drawn from      *)
(* bounded sets of strings.                                                *)
(***************************************************************************)
RECURSIVE SeqsUpTo(_, _)
\* the sequences over alphabet of length at most n
SeqsUpTo(alphabet, n) ==
    IF n = 0 THEN {<<>>}
    ELSE LET shorter == SeqsUpTo(alphabet, n - 1)
         IN  shorter \cup {Append(s, c) : s \in shorter, c \in alphabet}

PathAlphabet == {"a", "/", "."}

NoCall ==
    [fn |-> "none", folder |-> <<>>, file |-> <<>>, src |-> <<>>, num |-> NoNumber,
     cands |-> <<>>, pat |-> <<>>, out |-> NoneStr, out2 |-> NoneStr]

\* no command is running
MainIdle ==
    /\ args = [cmd |-> "none"]
    /\ pc = "idle"
    /\ tmp_file = NoPath
    /\ environ = NoPath
    /\ files = {}
    /\ objects = <<>>
    /\ local = <<>>
    /\ matching_file_names = <<>>
    /\ index = 0
    /\ oplog = <<>>
    /\ output = <<>>
    /\ exit_status = NoNumber

\* enumerate_destination_file_name(name, n)
InitEnumerate ==
    /\ MainIdle
    /\ \E name \in SeqsUpTo(PathAlphabet, MaxLen), n \in 0..MaxFileNumber :
           call = [NoCall EXCEPT !.fn = "enumerate", !.file = name, !.num = n]

CallEnumerate ==
    /\ call.fn = "enumerate"
    /\ call.out = NoneStr
    /\ call' = [call EXCEPT !.out = enumerate_destination_file_name(call.file, call.num)]
    /\ UNCHANGED mainVars

SpecEnumerate == InitEnumerate /\ [][CallEnumerate]_vars

\* determine_destination_name(dest_folder, dest_file_name, source_path, file_number)
InitResolve ==
    /\ MainIdle
    /\ \E folder \in SeqsUpTo(PathAlphabet, MaxShortLen),
          name \in SeqsUpTo(PathAlphabet, MaxNameLen) \cup {NoneStr},
          src \in SeqsUpTo(PathAlphabet, MaxShortLen),
          n \in (1..MaxMatchIndex) \cup {NoNumber} :
           call = [NoCall EXCEPT !.fn = "resolve", !.folder = folder, !.file = name,
                                 !.src = src, !.num = n]

CallResolve ==
    /\ call.fn = "resolve"
    /\ call.out = NoneStr
    /\ call' = [call EXCEPT !.out = determine_destination_name(
                                        call.folder, call.file, call.src, call.num)]
    /\ UNCHANGED mainVars

SpecResolve == InitResolve /\ [][CallResolve]_vars

\* file names without a leading or trailing separator
ProperNames ==
    {s \in SeqsUpTo(PathAlphabet, MaxNameLen) :
        s # <<>> /\ Head(s) # "/" /\ s[Len(s)] # "/"}

\* combine_folder_and_file_name(clean_folder_name(folder), file_name)
InitCombine ==
    /\ MainIdle
    /\ \E folder \in SeqsUpTo(PathAlphabet, MaxLen), name \in ProperNames :
           call = [NoCall EXCEPT !.fn = "combine", !.folder = folder, !.file = name]

CallCombine ==
    /\ call.fn = "combine"
    /\ call.out = NoneStr
    /\ call' = [call EXCEPT !.out = combine_folder_and_file_name(
                                        clean_folder_name(call.folder), call.file)]
    /\ UNCHANGED mainVars

SpecCombine == InitCombine /\ [][CallCombine]_vars

CandidateNames == SeqsUpTo({"a", "b"}, MaxCandLen) \ {<<>>}

CandidatePatterns ==
    {<<"a">>, <<"^", "a">>, <<"a", "$">>, <<".">>, <<"a", ".">>, <<"b", "*", "a">>,
     <<"^", "b", "$">>, <<"a", "b">>, <<"^", ".", "$">>}

\* find_matching_files(candidates, pattern), then again on its own result
InitMatch ==
    /\ MainIdle
    /\ \E cands \in SeqsUpTo(CandidateNames, MaxCandidates), pat \in CandidatePatterns :
           call = [NoCall EXCEPT !.fn = "match", !.cands = cands, !.pat = pat]

CallMatch ==
    /\ call.fn = "match"
    /\ call.out = NoneStr
    /\ call' = [call EXCEPT !.out = find_matching_files(call.cands, call.pat)]
    /\ UNCHANGED mainVars

CallMatchAgain ==
    /\ call.fn = "match"
    /\ call.out # NoneStr
    /\ call.out2 = NoneStr
    /\ call' = [call EXCEPT !.out2 = find_matching_files(call.out, call.pat)]
    /\ UNCHANGED mainVars

SpecMatch == InitMatch /\ [][CallMatch \/ CallMatchAgain]_vars

(***************************************************************************)
(* The commands: main() of download_file.py, upload_file.py, move_file.py  *)
(* and remove_file.py, one action per step of main().                      *)
(***************************************************************************)
\* exit codes of remove_file.py
EXIT_CODE_INVALID_CREDENTIALS == 200
EXIT_CODE_INVALID_BUCKET == 201
EXIT_CODE_FILE_NOT_FOUND == 205

\* exit codes of move_file.py, from its exit_codes module
ec_EXIT_CODE_INVALID_CREDENTIALS == 200
ec_EXIT_CODE_INVALID_BUCKET == 201
ec_EXIT_CODE_FILE_NOT_FOUND == 205

\* exit status of the interpreter when an exception leaves main() uncaught
UncaughtExceptionStatus == 1

\* the two values --service-account takes: an inline JSON blob, a key file path
JsonBlob == "{\"type\": \"service_account\"}"
KeyFilePath == "key.json"

\* json.loads(credentials) returns instead of raising
json_loads_succeeds(credentials) == credentials = JsonBlob

\* the path tempfile.mkstemp() returns
MkstempPath == "/tmp/tmpcred"

\* os.getcwd()
cwd == <<"/", "w">>

B1 == "b1"
B2 == "b2"

Letters == <<"a", "b", "e", "f", "g">>

\* the objects of the source bucket: d/<letter>.c inside the folder d, k.c outside
ObjectName(i) == <<"d", "/", Letters[i], ".", "c">>
OutsideName == <<"k", ".", "c">>
InitialNames == {ObjectName(i) : i \in 1..NumObjects} \cup {OutsideName}

\* code point order of the characters the model uses
CharOrder ==
    <<"*", ".", "/", "0", "1", "2", "3", "4", "5", "6", "7", "8", "9", "^", "_",
      "a", "b", "c", "d", "e", "f", "g", "k", "o", "w", "x", "z">>
CharRank(c) == CHOOSE i \in 1..Len(CharOrder) : CharOrder[i] = c

RECURSIVE LexLess(_, _)
\* s < t for Python strings
LexLess(s, t) ==
    IF t = <<>> THEN FALSE
    ELSE IF s = <<>> THEN TRUE
    ELSE IF Head(s) = Head(t) THEN LexLess(Tail(s), Tail(t))
    ELSE CharRank(Head(s)) < CharRank(Head(t))

RECURSIVE Sorted(_)
\* the names of a set in lexicographic order
Sorted(names) ==
    IF names = {} THEN <<>>
    ELSE LET least == CHOOSE n \in names : \A m \in names \ {n} : LexLess(n, m)
         IN  <<least>> \o Sorted(names \ {least})

Put(f, k, v) == [x \in DOMAIN f \cup {k} |-> IF x = k THEN v ELSE f[x]]
Drop(f, k) == [x \in DOMAIN f \ {k} |-> f[x]]

\* variant: the prefix is not passed on, the whole bucket is listed
find_google_cloud_storage_file_names_no_prefix(bucket, prefix) ==
    Sorted({k[2] : k \in {key \in DOMAIN objects : key[1] = bucket}})

\* bucket.list_blobs(prefix=prefix): the names of the bucket's objects that
\* start with prefix, in the backend's (lexicographic) listing order
find_google_cloud_storage_file_names(bucket, prefix) ==
    Sorted({k[2] : k \in {key \in DOMAIN objects :
                             key[1] = bucket /\ StartsWith(key[2], prefix)}})

\* the directories of the local tree: every proper ancestor of a local file
LocalDirs ==
    UNION {{SubSeq(path, 1, i - 1) : i \in {j \in 2..Len(path) : path[j] = "/"}} :
               path \in DOMAIN local}

\* glob.glob(normpath(f'{cwd}/{source_folder_name}/**'), recursive=True): the
\* folder itself with a trailing separator, then everything below it
find_all_local_file_names(source_folder_name) ==
    LET pattern == normpath(cwd \o <<"/">> \o source_folder_name \o <<"/", "*", "*">>)
        root == SubSeq(pattern, 1, Len(pattern) - 3)
        below == {path \in (DOMAIN local) \cup LocalDirs :
                     StartsWith(path, root \o <<"/">>)}
    IN  IF root \in LocalDirs
        THEN <<root \o <<"/">> >> \o Sorted(below)
        ELSE <<>>

SourceFolders == {<<>>, <<"d">>, <<"/", "d", "/">>}
SourceFileNames ==
    {<<"a", ".", "c">>, <<"c">>, <<"^", "d">>, <<"z">>, <<"*">>}
DestinationFolders == {<<>>, <<"/", "d">>}
DestinationFileNames ==
    {NoneStr, <<"x", ".", "c">>, <<"a", ".", "c">>, <<"k", ".", "c">>,
     <<"x", ".", "c", "/", ".", ".", "/", "y">>}
MatchTypes == {"exact_match", "regex_match"}
Credentials == {JsonBlob, KeyFilePath}

\* the command lines get_args() accepts, per command
ArgSet ==
    {[cmd |-> c, match_type |-> m, source_folder_name |-> sf, source_file_name |-> sn,
      destination_folder_name |-> df, destination_file_name |-> dn,
      gcp_application_credentials |-> cr, bucket_name |-> B1,
      destination_bucket_name |-> db] :
        c \in {"download", "upload"}, m \in MatchTypes, sf \in SourceFolders,
        sn \in SourceFileNames, df \in DestinationFolders,
        dn \in DestinationFileNames, cr \in Credentials, db \in {B1}}
    \cup
    {[cmd |-> "move", match_type |-> m, source_folder_name |-> sf,
      source_file_name |-> sn, destination_folder_name |-> df,
      destination_file_name |-> dn, gcp_application_credentials |-> cr,
      bucket_name |-> B1, destination_bucket_name |-> db] :
        m \in MatchTypes, sf \in SourceFolders, sn \in SourceFileNames,
        df \in DestinationFolders, dn \in DestinationFileNames,
        cr \in Credentials, db \in {B1, B2}}
    \cup
    {[cmd |-> "remove", match_type |-> m, source_folder_name |-> sf,
      source_file_name |-> sn, destination_folder_name |-> <<>>,
      destination_file_name |-> NoneStr, gcp_application_credentials |-> cr,
      bucket_name |-> B1, destination_bucket_name |-> B1] :
        m \in MatchTypes, sf \in SourceFolders, sn \in SourceFileNames,
        cr \in Credentials}

Init ==
    /\ args \in ArgSet
    /\ pc = "set_environment_variables"
    /\ tmp_file = NoPath
    /\ environ = NoPath
    /\ files = {KeyFilePath}
    /\ objects = [key \in {<<B1, n>> : n \in InitialNames} |-> key[2]]
    /\ local = [path \in {cwd \o <<"/">> \o n : n \in InitialNames} |->
                    SubSeq(path, Len(cwd) + 2, Len(path))]
    /\ matching_file_names = <<>>
    /\ index = 0
    /\ oplog = <<>>
    /\ output = <<>>
    /\ exit_status = NoNumber
    /\ call = NoCall

\* main's locals
IsRegex == args.match_type = "regex_match"

source_folder_name ==
    IF args.cmd = "upload" THEN args.source_folder_name
    ELSE clean_folder_name(args.source_folder_name)

destination_folder_name == clean_folder_name(args.destination_folder_name)

source_full_path ==
    IF args.cmd = "upload"
    THEN combine_folder_and_file_name(cwd \o <<"/">> \o args.source_folder_name,
                                      args.source_file_name)
    ELSE combine_folder_and_file_name(source_folder_name, args.source_file_name)

\* the process ends with this status; nothing else is done on the way out
Exit(status) ==
    /\ pc' = "exited"
    /\ exit_status' = status

\* an entry of oplog: one call to the storage backend
Op(op, bucket, src, dst, ok) ==
    [op |-> op, bucket |-> bucket, src |-> src, dst |-> dst, ok |-> ok]

\* an entry of output: one printed line
Line(msg, name) == [msg |-> msg, name |-> name]

\* variant: the credentials are written to a temporary file whatever they are
SetEnvironmentVariablesAlwaysTemporary ==
    /\ pc = "set_environment_variables"
    /\ files' = files \cup {MkstempPath}
    /\ environ' = MkstempPath
    /\ tmp_file' = MkstempPath
    /\ pc' = "get_gclient"
    /\ UNCHANGED <<args, objects, local, matching_file_names, index, oplog, output,
                   exit_status, call>>

\* set_environment_variables(args): inline JSON goes to a new temporary file
SetEnvironmentVariables ==
    /\ pc = "set_environment_variables"
    /\ IF json_loads_succeeds(args.gcp_application_credentials)
       THEN /\ files' = files \cup {MkstempPath}
            /\ environ' = MkstempPath
            /\ tmp_file' = MkstempPath
       ELSE /\ files' = files
            /\ environ' = args.gcp_application_credentials
            /\ tmp_file' = NoPath
    /\ pc' = "get_gclient"
    /\ UNCHANGED <<args, objects, local, matching_file_names, index, oplog, output,
                   exit_status, call>>

\* what a failed storage.Client() ends the process with
ClientFailureStatus ==
    CASE args.cmd = "remove" -> EXIT_CODE_INVALID_CREDENTIALS
      [] args.cmd = "move" -> ec_EXIT_CODE_INVALID_CREDENTIALS
      [] OTHER -> UncaughtExceptionStatus

\* get_gclient(): storage.Client() returns or raises
GetGclient ==
    /\ pc = "get_gclient"
    /\ \E ok \in BOOLEAN :
           /\ oplog' = Append(oplog, Op("client", "", <<>>, <<>>, ok))
           /\ IF ok
              THEN pc' = "get_bucket" /\ UNCHANGED exit_status
              ELSE Exit(ClientFailureStatus)
    /\ UNCHANGED <<args, tmp_file, environ, files, objects, local,
                   matching_file_names, index, output, call>>

\* what a failed gclient.get_bucket() ends the process with: remove_file.py
\* catches NotFound only, move_file.py every exception, the others re-raise
BucketFailureStatus(outcome) ==
    CASE args.cmd = "remove" /\ outcome = "NotFound" -> EXIT_CODE_INVALID_BUCKET
      [] args.cmd = "move" -> ec_EXIT_CODE_INVALID_BUCKET
      [] OTHER -> UncaughtExceptionStatus

\* get_bucket(gclient, bucket_name), for the bucket and, in move_file.py, for
\* the destination bucket after it
GetBucket ==
    /\ pc \in {"get_bucket", "get_destination_bucket"}
    /\ \E outcome \in {"ok", "NotFound", "Forbidden"} :
           LET bucket_name == IF pc = "get_bucket" THEN args.bucket_name
                              ELSE args.destination_bucket_name
           IN  /\ oplog' = Append(oplog,
                                  Op("get_bucket", bucket_name, <<>>, <<>>, outcome = "ok"))
               /\ IF outcome # "ok"
                  THEN Exit(BucketFailureStatus(outcome))
                       /\ UNCHANGED matching_file_names
                  ELSE /\ UNCHANGED exit_status
                       /\ IF args.cmd = "move" /\ pc = "get_bucket"
                          THEN pc' = "get_destination_bucket"
                               /\ UNCHANGED matching_file_names
                          ELSE IF args.cmd = "upload" /\ ~IsRegex
                          THEN pc' = "loop"
                               /\ matching_file_names' = <<source_full_path>>
                          ELSE pc' = "select"
                               /\ UNCHANGED matching_file_names
    /\ UNCHANGED <<args, tmp_file, environ, files, objects, local, index, output, call>>

\* variant: move_file.py has no try around the matching either
MatchFailureUncaught == UncaughtExceptionStatus

\* what a failed listing or re.compile ends the process with: only
\* move_file.py catches it
MatchFailureStatus ==
    IF args.cmd = "move" THEN ec_EXIT_CODE_FILE_NOT_FOUND ELSE UncaughtExceptionStatus

\* regex mode: list the candidates once, keep those the pattern is found in
FindMatches ==
    /\ pc = "select"
    /\ IsRegex
    /\ \E listed \in (IF args.cmd = "upload" THEN {TRUE} ELSE BOOLEAN) :
           LET file_names ==
                   IF args.cmd = "upload"
                   THEN find_all_local_file_names(args.source_folder_name)
                   ELSE find_google_cloud_storage_file_names(args.bucket_name,
                                                             source_folder_name)
               found == find_matching_files(file_names, args.source_file_name)
           IN  /\ oplog' = Append(oplog,
                                  Op("list", IF args.cmd = "upload" THEN "local"
                                             ELSE args.bucket_name,
                                     source_folder_name, <<>>, listed))
               /\ IF listed /\ PatternCompiles(args.source_file_name)
                  THEN /\ matching_file_names' = found
                       /\ output' = Append(output, Line("files found", IntToStr(Len(found))))
                       /\ pc' = "loop"
                       /\ UNCHANGED exit_status
                  ELSE /\ Exit(MatchFailureStatus)
                       /\ output' = IF args.cmd = "move"
                                    THEN Append(output, Line("Error in finding regex matches", <<>>))
                                    ELSE output
                       /\ UNCHANGED matching_file_names
    /\ UNCHANGED <<args, tmp_file, environ, files, objects, local, index, call>>

\* what a missing object ends the process with
BlobFailureStatus ==
    CASE args.cmd = "remove" -> EXIT_CODE_FILE_NOT_FOUND
      [] args.cmd = "move" -> ec_EXIT_CODE_FILE_NOT_FOUND
      [] OTHER -> UncaughtExceptionStatus

\* variant: bucket.blob(source_path) instead of the lookup, nothing notices a
\* missing object
GetStorageBlobUnchecked ==
    /\ pc = "select"
    /\ ~IsRegex
    /\ LET source_path == IF source_folder_name # <<>>
                          THEN source_folder_name \o <<"/">> \o args.source_file_name
                          ELSE args.source_file_name
       IN  /\ oplog' = Append(oplog, Op("get_blob", args.bucket_name, source_path, <<>>, TRUE))
           /\ matching_file_names' = <<source_path>>
           /\ pc' = "loop"
    /\ UNCHANGED <<args, tmp_file, environ, files, objects, local, index, output,
                   exit_status, call>>

\* exact mode: get_storage_blob(bucket, source_folder_name, source_file_name);
\* bucket.get_blob returns None for a missing object and blob.exists() raises
GetStorageBlob ==
    /\ pc = "select"
    /\ ~IsRegex
    /\ LET source_path == IF source_folder_name # <<>>
                          THEN source_folder_name \o <<"/">> \o args.source_file_name
                          ELSE args.source_file_name
           exists == <<args.bucket_name, source_path>> \in DOMAIN objects
       IN  /\ oplog' = Append(oplog, Op("get_blob", args.bucket_name, source_path, <<>>, exists))
           /\ IF exists
              THEN /\ matching_file_names' = <<source_path>>
                   /\ pc' = "loop"
                   /\ UNCHANGED <<exit_status, output>>
              ELSE /\ output' = Append(output, Line("does not exist", source_path))
                   /\ Exit(BlobFailureStatus)
                   /\ UNCHANGED matching_file_names
    /\ UNCHANGED <<args, tmp_file, environ, files, objects, local, index, call>>

\* the file_number main() passes for the i-th match of n
FileNumber(i, n) ==
    IF ~IsRegex THEN NoNumber
    ELSE IF args.cmd = "move" THEN (IF n = 1 THEN NoNumber ELSE i)
    ELSE i

\* move_file.py, exact mode: the name handed on as destination_file_name
MoveExactFileName(blob) ==
    determine_destination_file_name(blob, args.destination_file_name, NoNumber)

\* the destination main() resolves for the i-th match
DestinationName(i) ==
    LET blob == matching_file_names[i]
    IN  IF IsRegex
        THEN determine_destination_name(destination_folder_name,
                                        args.destination_file_name, blob,
                                        FileNumber(i, Len(matching_file_names)))
        ELSE IF args.cmd = "move"
        THEN determine_destination_name(destination_folder_name,
                                        MoveExactFileName(blob), blob, NoNumber)
        ELSE determine_destination_name(destination_folder_name,
                                        args.destination_file_name,
                                        source_full_path, NoNumber)

\* variant: the failure of one object is swallowed and the loop goes on
ContinueAfterFailure ==
    /\ pc' = "loop"
    /\ index' = index + 1
    /\ UNCHANGED exit_status

\* an exception of a per-object operation leaves the loop and main() uncaught
RaiseFromLoop ==
    /\ Exit(UncaughtExceptionStatus)
    /\ UNCHANGED index

\* download_google_cloud_storage_file(blob, destination_name)
DownloadFile ==
    /\ pc = "loop"
    /\ args.cmd = "download"
    /\ index < Len(matching_file_names)
    /\ LET blob == matching_file_names[index + 1]
           local_path == normpath(cwd \o <<"/">> \o DestinationName(index + 1))
           exists == <<args.bucket_name, blob>> \in DOMAIN objects
       IN  \E ok \in (IF exists THEN BOOLEAN ELSE {FALSE}) :
               /\ oplog' = Append(oplog, Op("download", args.bucket_name, blob, local_path, ok))
               /\ IF ok
                  THEN /\ local' = Put(local, local_path, objects[<<args.bucket_name, blob>>])
                       /\ output' = Append(output, Line("successfully downloaded", blob))
                       /\ index' = index + 1
                       /\ UNCHANGED <<pc, exit_status>>
                  ELSE /\ RaiseFromLoop
                       /\ UNCHANGED <<local, output>>
    /\ UNCHANGED <<args, tmp_file, environ, files, objects, matching_file_names, call>>

\* upload_google_cloud_storage_file(source_full_path, destination_full_path):
\* a directory or a missing file cannot be opened
UploadFile ==
    /\ pc = "loop"
    /\ args.cmd = "upload"
    /\ index < Len(matching_file_names)
    /\ LET source == matching_file_names[index + 1]
           destination == DestinationName(index + 1)
       IN  \E ok \in (IF source \in DOMAIN local THEN BOOLEAN ELSE {FALSE}) :
               /\ oplog' = Append(oplog, Op("upload", args.bucket_name, source, destination, ok))
               /\ IF ok
                  THEN /\ objects' = Put(objects, <<args.bucket_name, destination>>,
                                         local[source])
                       /\ output' = Append(output, Line("successfully uploaded", source))
                       /\ index' = index + 1
                       /\ UNCHANGED <<pc, exit_status>>
                  ELSE /\ RaiseFromLoop
                       /\ UNCHANGED <<objects, output>>
    /\ UNCHANGED <<args, tmp_file, environ, files, local, matching_file_names, call>>

\* delete_google_cloud_storage_file(blob)
DeleteFile ==
    /\ pc = "loop"
    /\ args.cmd = "remove"
    /\ index < Len(matching_file_names)
    /\ LET blob == matching_file_names[index + 1]
           exists == <<args.bucket_name, blob>> \in DOMAIN objects
       IN  \E ok \in (IF exists THEN BOOLEAN ELSE {FALSE}) :
               /\ oplog' = Append(oplog, Op("delete", args.bucket_name, blob, <<>>, ok))
               /\ IF ok
                  THEN /\ objects' = Drop(objects, <<args.bucket_name, blob>>)
                       /\ output' = Append(output, Line("delete ran successfully", blob))
                       /\ index' = index + 1
                       /\ UNCHANGED <<pc, exit_status>>
                  ELSE /\ RaiseFromLoop
                       /\ UNCHANGED <<objects, output>>
    /\ UNCHANGED <<args, tmp_file, environ, files, local, matching_file_names, call>>

\* move_file.py, exact mode: with an empty derived name the Blob object itself
\* reaches os.path.basename, which raises
MoveDestinationRaises(blob) ==
    ~IsRegex /\ ~TruthyStr(MoveExactFileName(blob))

\* variant: a failed copy is not noticed and the delete follows all the same
CopyFailureIgnored ==
    /\ pc' = "delete"
    /\ UNCHANGED <<index, exit_status>>

\* what follows a copy_blob that raised: the exception leaves
\* move_google_cloud_storage_file before source_blob.delete()
CopyFailed == RaiseFromLoop

\* move_google_cloud_storage_file, first half: source_bucket.copy_blob
MoveCopy ==
    /\ pc = "loop"
    /\ args.cmd = "move"
    /\ index < Len(matching_file_names)
    /\ LET blob == matching_file_names[index + 1]
           exists == <<args.bucket_name, blob>> \in DOMAIN objects
       IN  IF MoveDestinationRaises(blob)
           THEN RaiseFromLoop /\ UNCHANGED <<objects, oplog>>
           ELSE \E ok \in (IF exists THEN BOOLEAN ELSE {FALSE}) :
                    /\ oplog' = Append(oplog, Op("copy", args.bucket_name, blob,
                                                 DestinationName(index + 1), ok))
                    /\ IF ok
                       THEN /\ objects' = Put(objects,
                                              <<args.destination_bucket_name,
                                                DestinationName(index + 1)>>,
                                              objects[<<args.bucket_name, blob>>])
                            /\ pc' = "delete"
                            /\ UNCHANGED <<index, exit_status>>
                       ELSE /\ CopyFailed
                            /\ UNCHANGED objects
    /\ UNCHANGED <<args, tmp_file, environ, files, local, matching_file_names, output,
                   call>>

\* variant: a failed delete is swallowed, the move is reported and the loop goes on
DeleteFailureIgnored ==
    /\ output' = Append(output, Line("File moved", matching_file_names[index + 1]))
    /\ index' = index + 1
    /\ pc' = "loop"
    /\ UNCHANGED exit_status

\* what follows a source_blob.delete() that raised: the exception leaves
\* move_google_cloud_storage_file before the print, and main()
DeleteFailed ==
    /\ RaiseFromLoop
    /\ UNCHANGED output

\* move_google_cloud_storage_file, second half: source_blob.delete() and the print
MoveDelete ==
    /\ pc = "delete"
    /\ LET blob == matching_file_names[index + 1]
           exists == <<args.bucket_name, blob>> \in DOMAIN objects
       IN  \E ok \in (IF exists THEN BOOLEAN ELSE {FALSE}) :
               /\ oplog' = Append(oplog, Op("delete", args.bucket_name, blob, <<>>, ok))
               /\ IF ok
                  THEN /\ objects' = Drop(objects, <<args.bucket_name, blob>>)
                       /\ output' = Append(output, Line("File moved", blob))
                       /\ index' = index + 1
                       /\ pc' = "loop"
                       /\ UNCHANGED exit_status
                  ELSE /\ DeleteFailed
                       /\ UNCHANGED objects
    /\ UNCHANGED <<args, tmp_file, environ, files, local, matching_file_names, call>>

\* variant: the loop stops one match short
FinishBeforeLastMatch ==
    /\ pc = "loop"
    /\ index >= Len(matching_file_names) - 1
    /\ IF tmp_file # NoPath
       THEN /\ files' = files \ {tmp_file}
            /\ output' = Append(output, Line("Removing temporary credentials file", <<>>))
       ELSE UNCHANGED <<files, output>>
    /\ Exit(0)
    /\ UNCHANGED <<args, tmp_file, environ, objects, local, matching_file_names, index,
                   oplog, call>>

\* the end of main(): every match is done; the temporary file is removed
Finish ==
    /\ pc = "loop"
    /\ index = Len(matching_file_names)
    /\ IF tmp_file # NoPath
       THEN /\ files' = files \ {tmp_file}
            /\ output' = Append(output, Line("Removing temporary credentials file", <<>>))
       ELSE UNCHANGED <<files, output>>
    /\ Exit(0)
    /\ UNCHANGED <<args, tmp_file, environ, objects, local, matching_file_names, index,
                   oplog, call>>

Next ==
    \/ SetEnvironmentVariables
    \/ GetGclient
    \/ GetBucket
    \/ FindMatches
    \/ GetStorageBlob
    \/ DownloadFile
    \/ UploadFile
    \/ DeleteFile
    \/ MoveCopy
    \/ MoveDelete
    \/ Finish

Spec == Init /\ [][Next]_vars

(***************************************************************************)
(* Properties of the path and matching functions.                          *)
(***************************************************************************)
Digits == {"0", "1", "2", "3", "4", "5", "6", "7", "8", "9"}

RECURSIVE DecimalValue(_)
\* the number a sequence of digits denotes
DecimalValue(ds) ==
    IF ds = <<>> THEN 0
    ELSE 10 * DecimalValue(SubSeq(ds, 1, Len(ds) - 1))
         + (CHOOSE d \in 0..9 : Digit(d) = ds[Len(ds)])

\* s is the decimal numeral of n, without leading zeros
IsNumeral(s, n) ==
    /\ s # <<>>
    /\ \A i \in 1..Len(s) : s[i] \in Digits
    /\ (Len(s) > 1 => s[1] # "0")
    /\ DecimalValue(s) = n

\* s is before \o "_<n>" \o after
IsNumbered(s, before, n, after) ==
    \E k \in 1..(Len(s) - Len(before) - Len(after) - 1) :
        /\ Len(s) = Len(before) + 1 + k + Len(after)
        /\ SubSeq(s, 1, Len(before)) = before
        /\ s[Len(before) + 1] = "_"
        /\ IsNumeral(SubSeq(s, Len(before) + 2, Len(before) + 1 + k), n)
        /\ SubSeq(s, Len(before) + 2 + k, Len(s)) = after

DotCount(s) == Cardinality({i \in 1..Len(s) : s[i] = "."})

\* C6: enumerate_destination_file_name(name, n) is name with "_<n>" inserted
\* immediately before its leftmost '.', everything else unchanged (later dots
\* included); a name without '.' gets "_<n>" appended.
Thm_C6_EnumerateFirstDot ==
    (call.fn = "enumerate" /\ call.out # NoneStr) =>
        LET name == call.file
            dots == {i \in 1..Len(name) : name[i] = "."}
        IN  IF dots # {}
            THEN LET first == CHOOSE i \in dots : \A j \in dots : i <= j
                 IN  IsNumbered(call.out, SubSeq(name, 1, first - 1), call.num,
                                SubSeq(name, first, Len(name)))
            ELSE IsNumbered(call.out, name, call.num, <<>>)

\* C6 witness: a name with two dots was enumerated with a two-digit number
Wit_C6_TwoDotsTwoDigits ==
    /\ call.fn = "enumerate"
    /\ call.out # NoneStr
    /\ DotCount(call.file) = 2
    /\ call.file[1] # "."
    /\ call.num >= 10

\* a destination file name was supplied (not None, not '')
NameGiven == TruthyStr(call.file)

\* C7: determine_destination_name gives combine(folder, enumerate(name, n)) for a
\* given name and a given number, combine(folder, name) for a given name and no
\* number, and combine(folder, basename(source)) for no name, whatever the number.
Thm_C7_ResolveDestination ==
    (call.fn = "resolve" /\ call.out # NoneStr) =>
        /\ (NameGiven /\ call.num # NoNumber) =>
               call.out = combine_folder_and_file_name(
                              call.folder,
                              enumerate_destination_file_name(call.file, call.num))
        /\ (NameGiven /\ call.num = NoNumber) =>
               call.out = combine_folder_and_file_name(call.folder, call.file)
        /\ ~NameGiven =>
               call.out = combine_folder_and_file_name(call.folder, basename(call.src))

\* C7 witness: no name was given, a number was, and the source has a folder part
Wit_C7_DerivedNameWithNumber ==
    /\ call.fn = "resolve"
    /\ call.out # NoneStr
    /\ call.file = NoneStr
    /\ call.num = 2
    /\ call.src = <<"/", "a">>
    /\ call.folder = <<"a">>

NoLeadingSeparator(s) == ~(s # <<>> /\ Head(s) = "/")

NoDoubledSeparator(s) == \A i \in 1..(Len(s) - 1) : ~(s[i] = "/" /\ s[i + 1] = "/")

\* s has a '.' or '..' path segment
HasDotSegment(s) ==
    \E i \in 1..Len(Split(s, <<>>)) : Split(s, <<>>)[i] \in {<<".">>, <<".", ".">>}

\* s has a character that is not a separator
HasNonSeparator(s) == \E i \in 1..Len(s) : s[i] # "/"

RECURSIVE CollapseSeparators(_)
\* s with every run of separators replaced by one separator
CollapseSeparators(s) ==
    IF Len(s) < 2 THEN s
    ELSE IF s[1] = "/" /\ s[2] = "/" THEN CollapseSeparators(Tail(s))
    ELSE <<s[1]>> \o CollapseSeparators(Tail(s))

\* the non-empty components of s joined by single separators
JoinedComponents(s) ==
    Join(SelectSeq(Split(s, <<>>), LAMBDA comp : comp # <<>>))

\* C8 as stated: for every non-empty folder the result has no leading and no
\* doubled separator and is the cleaned folder, one separator, the file name;
\* for an empty folder it is the file name alone.
Orig_C8_OneSeparator ==
    (call.fn = "combine" /\ call.out # NoneStr) =>
        /\ NoLeadingSeparator(call.out)
        /\ NoDoubledSeparator(call.out)
        /\ call.folder # <<>> =>
               call.out = clean_folder_name(call.folder) \o <<"/">> \o call.file
        /\ call.folder = <<>> => call.out = call.file

\* C8 amended: the result never has a leading or doubled separator; when neither
\* the folder nor the file name has a '.' or '..' segment, it is the cleaned
\* folder (the folder's non-empty components), one separator and the file name
\* with its separator runs collapsed if the folder has a character other than
\* '/', and that file name alone if the folder is empty or made of '/' only.
Thm_C8_OneSeparator ==
    (call.fn = "combine" /\ call.out # NoneStr) =>
        /\ NoLeadingSeparator(call.out)
        /\ NoDoubledSeparator(call.out)
        /\ (~HasDotSegment(call.folder) /\ ~HasDotSegment(call.file)) =>
               IF HasNonSeparator(call.folder)
               THEN call.out = JoinedComponents(call.folder) \o <<"/">>
                                   \o CollapseSeparators(call.file)
               ELSE call.out = CollapseSeparators(call.file)

\* C8 witness: a folder with leading, repeated and trailing separators was
\* cleaned and combined with a file name
Wit_C8_MessyFolder ==
    /\ call.fn = "combine"
    /\ call.out # NoneStr
    /\ call.folder = <<"/", "a", "/", "/">>
    /\ call.file = <<"a", ".", "a">>

\* C9: find_matching_files returns exactly the candidates the pattern is found
\* in, in their original order, and filtering its result again changes nothing.
Thm_C9_FilterExactOrderedIdempotent ==
    /\ (call.fn = "match" /\ call.out # NoneStr) =>
           call.out = SelectSeq(call.cands, LAMBDA c : re_search(call.pat, c))
    /\ (call.fn = "match" /\ call.out2 # NoneStr) => call.out2 = call.out

\* C9 witness: the pattern was found inside (not at the start of) two of three
\* candidates, one was dropped, and the result was filtered again
Wit_C9_FilteredTwice ==
    /\ call.fn = "match"
    /\ call.out2 # NoneStr
    /\ call.pat = <<"a">>
    /\ call.cands = <<<<"b", "a">>, <<"b">>, <<"a", "b">>>>
    /\ Len(call.out) = 2

(***************************************************************************)
(* Properties of the commands.                                             *)
(***************************************************************************)
IsJson == json_loads_succeeds(args.gcp_application_credentials)

Exited == pc = "exited"

\* C1 as stated: with inline JSON credentials the temporary file exists when the
\* storage client is about to be constructed, and it no longer exists once the
\* command has exited, whatever the exit path.
Orig_C1_TempFileGoneAtExit ==
    /\ (pc = "get_gclient" /\ IsJson) => (tmp_file = MkstempPath /\ MkstempPath \in files)
    /\ (Exited /\ IsJson) => MkstempPath \notin files

PerObjectOps == {"download", "upload", "copy", "delete"}

\* the per-object calls of the log, reduced to operation, source and outcome
Calls ==
    LET ops == SelectSeq(oplog, LAMBDA e : e.op \in PerObjectOps)
    IN  [i \in 1..Len(ops) |-> <<ops[i].op, ops[i].src, ops[i].ok>>]

\* the calls a completed operation on the j-th match consists of
CompletedCalls(j) ==
    LET blob == matching_file_names[j]
    IN  CASE args.cmd = "download" -> <<<<"download", blob, TRUE>>>>
          [] args.cmd = "upload" -> <<<<"upload", blob, TRUE>>>>
          [] args.cmd = "remove" -> <<<<"delete", blob, TRUE>>>>
          [] args.cmd = "move" -> <<<<"copy", blob, TRUE>>, <<"delete", blob, TRUE>>>>

RECURSIVE CompletedUpTo(_)
\* the calls of completed operations on the matches 1..j, in order
CompletedUpTo(j) ==
    IF j = 0 THEN <<>> ELSE CompletedUpTo(j - 1) \o CompletedCalls(j)

\* the calls of an operation on the k-th match that failed
FailedCalls(k) ==
    LET blob == matching_file_names[k]
    IN  CASE args.cmd = "download" -> {<<<<"download", blob, FALSE>>>>}
          [] args.cmd = "upload" -> {<<<<"upload", blob, FALSE>>>>}
          [] args.cmd = "remove" -> {<<<<"delete", blob, FALSE>>>>}
          [] args.cmd = "move" -> {<<<<"copy", blob, FALSE>>>>,
                                   <<<<"copy", blob, TRUE>>, <<"delete", blob, FALSE>>>>}

\* a per-object operation has failed
SomeCallFailed == \E i \in 1..Len(Calls) : ~Calls[i][3]

\* the effect of the completed operation on the j-th match is still there
EffectPresent(j) ==
    LET blob == matching_file_names[j]
    IN  CASE args.cmd = "download" ->
                 normpath(cwd \o <<"/">> \o DestinationName(j)) \in DOMAIN local
          [] args.cmd = "upload" ->
                 <<args.bucket_name, DestinationName(j)>> \in DOMAIN objects
          [] args.cmd = "remove" -> <<args.bucket_name, blob>> \notin DOMAIN objects
          [] args.cmd = "move" -> TRUE   \* a later move may write under this name

\* C2: fail-fast batch. In regex mode, once the operation on match k has failed,
\* the command has exited as failed, the calls made are exactly the completed
\* operations on the matches 1..k-1 in order followed by the failed one (so no
\* match after k was attempted and nothing was rolled back), and the effects of
\* the operations on 1..k-1 are still in place.
Thm_C2_FailFastBatch ==
    (IsRegex /\ SomeCallFailed) =>
        LET k == index + 1
        IN  /\ Exited
            /\ exit_status # 0
            /\ k <= Len(matching_file_names)
            /\ \E tail \in FailedCalls(k) : Calls = CompletedUpTo(k - 1) \o tail
            /\ \A j \in 1..(k - 1) : EffectPresent(j)

\* C2 witness: three matches, the operation on the second one failed
Wit_C2_SecondOfThreeFailed ==
    /\ IsRegex
    /\ Exited
    /\ SomeCallFailed
    /\ index = 1
    /\ Len(matching_file_names) >= 3
    /\ args.cmd = "remove"

\* C3: move issues the delete of a source only directly after a successful copy
\* of that source; after a failed copy nothing more is issued and the source
\* object is still in the source bucket.
Thm_C3_DeleteOnlyAfterCopy ==
    args.cmd = "move" =>
        \A i \in 1..Len(oplog) :
            /\ oplog[i].op = "delete" =>
                   /\ i > 1
                   /\ oplog[i - 1].op = "copy"
                   /\ oplog[i - 1].src = oplog[i].src
                   /\ oplog[i - 1].ok
            /\ (oplog[i].op = "copy" /\ ~oplog[i].ok) =>
                   /\ i = Len(oplog)
                   /\ Exited
                   /\ <<args.bucket_name, oplog[i].src>> \in DOMAIN objects

\* C3 witness: the copy of the second match failed
Wit_C3_CopyFailed ==
    /\ args.cmd = "move"
    /\ Exited
    /\ index = 1
    /\ oplog[Len(oplog)].op = "copy"
    /\ ~oplog[Len(oplog)].ok

\* C4: when the copy of a move succeeded and the delete of the source failed,
\* the object is at the source and at the destination, the command has exited
\* as failed without a 'File moved' line for the object, and no later match was
\* touched.
Thm_C4_DeleteFailureLeavesDuplicate ==
    args.cmd = "move" =>
        \A i \in 1..Len(oplog) :
            (oplog[i].op = "delete" /\ ~oplog[i].ok) =>
                LET src == oplog[i].src
                    dst == oplog[i - 1].dst
                IN  /\ i = Len(oplog)
                    /\ Exited
                    /\ exit_status # 0
                    /\ src = matching_file_names[index + 1]
                    /\ <<args.bucket_name, src>> \in DOMAIN objects
                    /\ <<args.destination_bucket_name, dst>> \in DOMAIN objects
                    /\ objects[<<args.destination_bucket_name, dst>>]
                           = objects[<<args.bucket_name, src>>]
                    /\ \A l \in 1..Len(output) : output[l] # Line("File moved", src)
                    /\ \A j \in (index + 2)..Len(matching_file_names) :
                           \A e \in 1..Len(oplog) : oplog[e].src # matching_file_names[j]

\* C4 witness: the delete of the first of several matches failed after its
\* copy into the other bucket
Wit_C4_DeleteFailed ==
    /\ args.cmd = "move"
    /\ Exited
    /\ index = 0
    /\ Len(matching_file_names) >= 2
    /\ args.destination_bucket_name = B2
    /\ oplog[Len(oplog)].op = "delete"
    /\ ~oplog[Len(oplog)].ok

\* the destination exact-match mode resolves for the given folder and file name
ExactModeDestination ==
    combine_folder_and_file_name(destination_folder_name, args.destination_file_name)

\* C5 as stated: in regex mode of download, upload and move, with exactly one
\* match and a destination file name given, the destination the operation is
\* called with is the one exact-match mode resolves (no enumeration suffix).
Orig_C5_SingleMatchNotEnumerated ==
    (/\ IsRegex
     /\ args.cmd \in {"download", "upload", "move"}
     /\ Len(matching_file_names) = 1
     /\ TruthyStr(args.destination_file_name)) =>
        \A i \in 1..Len(oplog) :
            /\ oplog[i].op \in {"upload", "copy"} => oplog[i].dst = ExactModeDestination
            /\ oplog[i].op = "download" =>
                   oplog[i].dst = normpath(cwd \o <<"/">> \o ExactModeDestination)

\* the cause the command failed of, read from the last backend call
FailureCause ==
    IF ~Exited \/ oplog = <<>> \/ oplog[Len(oplog)].ok THEN "none"
    ELSE CASE oplog[Len(oplog)].op = "client" -> "invalid credentials"
           [] oplog[Len(oplog)].op = "get_bucket" -> "invalid bucket"
           [] oplog[Len(oplog)].op = "get_blob" -> "file not found"
           [] OTHER -> "none"

\* the status this command ends with for a cause
StatusOfCause(cause) ==
    CASE cause = "invalid credentials" -> ClientFailureStatus
      [] cause = "invalid bucket" -> BucketFailureStatus("NotFound")
      [] cause = "file not found" -> BlobFailureStatus

Causes == {"invalid credentials", "invalid bucket", "file not found"}

\* C10 as stated: in every command a failure of one of the three causes ends the
\* process with a non-zero status that is not the status of another cause.
Orig_C10_DistinctExitCodes ==
    FailureCause \in Causes =>
        /\ exit_status # 0
        /\ \A other \in Causes \ {FailureCause} : exit_status # StatusOfCause(other)

\* C11: with credentials that do not parse as JSON, the value itself is exported
\* as the credential path, no temporary file is created and no file is removed;
\* whatever the credentials, the only file ever removed is the temporary file the
\* command created, so the user's key file exists throughout.
Thm_C11_KeyFileLeftAlone ==
    /\ KeyFilePath \in files
    /\ files \subseteq {KeyFilePath, MkstempPath}
    /\ MkstempPath \in files => (IsJson /\ tmp_file = MkstempPath)
    /\ (~IsJson /\ pc # "set_environment_variables") =>
           /\ environ = args.gcp_application_credentials
           /\ environ = KeyFilePath
           /\ tmp_file = NoPath
           /\ files = {KeyFilePath}

\* C11 witness: a command given a key file path has completed
Wit_C11_KeyFileRunCompleted ==
    /\ ~IsJson
    /\ Exited
    /\ exit_status = 0
    /\ Len(matching_file_names) >= 1

\* the listings of the log
ListCalls == SelectSeq(oplog, LAMBDA e : e.op = "list")

\* the calls of the log that write to a destination
WritingCalls == SelectSeq(oplog, LAMBDA e : e.op \in {"download", "upload", "copy"})

\* the confirmation lines printed, one per finished object
Confirmations ==
    SelectSeq(output, LAMBDA l : l.msg \in {"successfully downloaded",
                                            "successfully uploaded",
                                            "delete ran successfully", "File moved"})

\* the destination the operation on the i-th match is called with
CalledDestination(i) ==
    IF args.cmd = "download" THEN normpath(cwd \o <<"/">> \o DestinationName(i))
    ELSE DestinationName(i)

\* C12: in regex mode the candidates are listed exactly once; the matches are in
\* listing order and are worked on one at a time in that order; a successful run
\* over N matches has made exactly the N operations, the i-th on the i-th match
\* with the destination resolved for index i, and with N = 0 it makes none and
\* still succeeds.
Thm_C12_OneListingNOperations ==
    IsRegex =>
        /\ Len(ListCalls) <= 1
        /\ pc \in {"loop", "delete"} => Len(ListCalls) = 1
        /\ Calls # <<>> => (Len(ListCalls) = 1 /\ ListCalls[1].ok)
        /\ \A i, j \in 1..Len(matching_file_names) :
               i < j => LexLess(matching_file_names[i], matching_file_names[j])
        /\ (pc = "loop" /\ ~SomeCallFailed) => Calls = CompletedUpTo(index)
        /\ (Exited /\ exit_status = 0) =>
               /\ Len(ListCalls) = 1
               /\ index = Len(matching_file_names)
               /\ Calls = CompletedUpTo(Len(matching_file_names))
               /\ Len(Confirmations) = Len(matching_file_names)
               /\ \A i \in 1..Len(Confirmations) :
                      Confirmations[i].name = matching_file_names[i]
               /\ args.cmd # "remove" =>
                      /\ Len(WritingCalls) = Len(matching_file_names)
                      /\ \A i \in 1..Len(WritingCalls) :
                             WritingCalls[i].dst = CalledDestination(i)
        /\ (pc = "loop" /\ matching_file_names = <<>>) => (Calls = <<>> /\ ENABLED Finish)

\* C12 witness: a regex run over three matches has succeeded
Wit_C12_ThreeMatchesDone ==
    /\ IsRegex
    /\ Exited
    /\ exit_status = 0
    /\ Len(matching_file_names) = 3
    /\ args.cmd = "download"

\* the object name exact-match mode asks the bucket for
NamedObject ==
    IF clean_folder_name(args.source_folder_name) = <<>> THEN args.source_file_name
    ELSE clean_folder_name(args.source_folder_name) \o <<"/">> \o args.source_file_name

\* the bucket does not hold the named object when the command starts
NamedObjectMissing == NamedObject \notin InitialNames

\* the lookup of the named object has been made
LookedUp == \E i \in 1..Len(oplog) : oplog[i].op = "get_blob"

\* C13: in exact-match mode of download, move and remove, when the bucket does
\* not hold the named object, the lookup is followed by the 'does not exist'
\* report and a failed exit, and no download, copy or delete is ever attempted.
Thm_C13_MissingObjectStops ==
    (~IsRegex /\ args.cmd \in {"download", "move", "remove"} /\ NamedObjectMissing) =>
        /\ Calls = <<>>
        /\ pc \notin {"loop", "delete"}
        /\ matching_file_names = <<>>
        /\ Exited => exit_status # 0
        /\ LookedUp =>
               /\ Exited
               /\ oplog[Len(oplog)].op = "get_blob"
               /\ \E l \in 1..Len(output) : output[l] = Line("does not exist", NamedObject)
        /\ objects = [key \in {<<B1, n>> : n \in InitialNames} |-> key[2]]

\* C13 witness: the lookup of a missing object has ended a move
Wit_C13_MissingObjectReported ==
    /\ ~IsRegex
    /\ args.cmd = "move"
    /\ NamedObjectMissing
    /\ LookedUp
    /\ Exited

\* the listing succeeded and was the last call made
ListedLast ==
    /\ oplog # <<>>
    /\ oplog[Len(oplog)].op = "list"
    /\ oplog[Len(oplog)].ok

\* C14: in regex mode of move, a pattern that does not compile ends the command
\* with the file-not-found exit code, the code a missing object gives, and no
\* object is copied or deleted.
Thm_C14_BadPatternIsFileNotFound ==
    (args.cmd = "move" /\ IsRegex /\ ~PatternCompiles(args.source_file_name)) =>
        /\ Calls = <<>>
        /\ pc \notin {"loop", "delete"}
        /\ objects = [key \in {<<B1, n>> : n \in InitialNames} |-> key[2]]
        /\ ListedLast =>
               /\ Exited
               /\ exit_status = ec_EXIT_CODE_FILE_NOT_FOUND
               /\ exit_status = BlobFailureStatus
               /\ exit_status # 0
               /\ output[Len(output)].msg = "Error in finding regex matches"

\* C14 witness: a move with the pattern '*' has listed the bucket and exited
Wit_C14_BadPatternExited ==
    /\ args.cmd = "move"
    /\ IsRegex
    /\ args.source_file_name = <<"*">>
    /\ ListedLast
    /\ Exited

\* C15 as stated: in regex mode with more than one match and a destination file
\* name given, the destinations the operations of the batch are called with are
\* pairwise distinct.
Orig_C15_DistinctDestinations ==
    (/\ IsRegex
     /\ args.cmd \in {"download", "upload", "move"}
     /\ Len(matching_file_names) > 1
     /\ TruthyStr(args.destination_file_name)) =>
        \A i, j \in 1..Len(WritingCalls) :
            i < j => WritingCalls[i].dst # WritingCalls[j].dst

\* a move has just completed: the last call is a successful delete, which
\* follows the successful copy of the same source
MoveJustCompleted ==
    /\ args.cmd = "move"
    /\ Len(oplog) >= 2
    /\ oplog[Len(oplog)].op = "delete"
    /\ oplog[Len(oplog)].ok

\* C16 as stated: when a move has completed without error, the destination
\* bucket holds an object with the source's content at the resolved destination,
\* also when the destination is the source itself.
Orig_C16_MovedObjectAtDestination ==
    MoveJustCompleted =>
        LET src == oplog[Len(oplog)].src
            dst == oplog[Len(oplog) - 1].dst
        IN  /\ <<args.destination_bucket_name, dst>> \in DOMAIN objects
            /\ objects[<<args.destination_bucket_name, dst>>] = src

\* the object is one the command is asked to work on: in regex mode its name
\* starts with the cleaned source folder and the pattern is found in it, in
\* exact mode it is the named object
InMatchSet(name) ==
    IF IsRegex
    THEN /\ PatternCompiles(args.source_file_name)
         /\ StartsWith(name, clean_folder_name(args.source_folder_name))
         /\ re_search(args.source_file_name, name)
    ELSE name = NamedObject

\* a match was copied over the object of this name in the source bucket
Overwritten(name) ==
    /\ args.cmd = "move"
    /\ args.destination_bucket_name = args.bucket_name
    /\ \E i \in 1..Len(oplog) :
           oplog[i].op = "copy" /\ oplog[i].ok /\ oplog[i].dst = name

\* C17 as stated: in remove and move, every object of the source bucket that is
\* not in the match set is present and unchanged at every point of the command.
Orig_C17_OthersUntouched ==
    args.cmd \in {"move", "remove"} =>
        \A name \in InitialNames :
            ~InMatchSet(name) =>
                /\ <<args.bucket_name, name>> \in DOMAIN objects
                /\ objects[<<args.bucket_name, name>>] = name

\* C17 amended: in remove and move, every object of the source bucket that is
\* not in the match set is present at every point of the command, and unchanged
\* unless a move into the same bucket has copied a match to its name.
Thm_C17_OthersNeverDeleted ==
    args.cmd \in {"move", "remove"} =>
        \A name \in InitialNames :
            ~InMatchSet(name) =>
                /\ <<args.bucket_name, name>> \in DOMAIN objects
                /\ objects[<<args.bucket_name, name>>] # name => Overwritten(name)

\* C17 witness: a remove by pattern inside the folder d has deleted its matches
\* and completed; k.c, outside the folder, matches the pattern too
Wit_C17_FolderScopedRemoveDone ==
    /\ args.cmd = "remove"
    /\ IsRegex
    /\ args.source_file_name = <<"c">>
    /\ source_folder_name = <<"d">>
    /\ Exited
    /\ exit_status = 0
    /\ Len(matching_file_names) >= 2
    /\ re_search(args.source_file_name, OutsideName)

====
